---- MODULE Spec2Model ----
(***************************************************************************)
(* Model of src/main.rs: a Wayland client that binds wl_compositor and     *)
(* xdg_wm_base from the registry, gives one wl_surface the xdg_toplevel    *)
(* role, acknowledges configure events, (re)configures a wgpu surface and  *)
(* draws a clear-colour frame per loop iteration until Close.              *)
(*                                                                         *)
(* One action per Dispatch::event implementation and one per step of       *)
(* main().  `log` is the ordered trace of what crosses the process         *)
(* boundary: events dispatched to the handlers, protocol requests issued   *)
(* by the client, and calls into the GPU surface.                          *)
(***************************************************************************)
EXTENDS Integers, Sequences, FiniteSets, TLC

VARIABLES pc, fault, running, wl_surface, wm_base, xdg_surface, xdg_toplevel,
          configured, size, pending_resize, wgpu_state, surface_configuration,
          log, flushed, dispatched, events, next_name, next_serial

vars == <<pc, fault, running, wl_surface, wm_base, xdg_surface, xdg_toplevel,
          configured, size, pending_resize, wgpu_state, surface_configuration,
          log, flushed, dispatched, events, next_name, next_serial>>

\* the event source: events delivered so far, the name the server gives the
\* next global it announces, the serial it puts on its next serial-carrying event
source == <<events, next_name, next_serial>>

session == <<running, wl_surface, wm_base, xdg_surface, xdg_toplevel,
             configured, size, pending_resize, wgpu_state>>

(* ---------------------------- bounds ----------------------------------- *)
\* events the event source delivers over one run
MaxEvents == 5

(* ------------------------- Option<T> ----------------------------------- *)
None == <<>>
Some(x) == <<x>>
IsSome(o) == o # None
Unwrap(o) == o[1]

(* ------------------------- WindowSize ---------------------------------- *)
WindowSize(w, h) == [width |-> w, height |-> h]

DefaultWidth == 320
DefaultHeight == 320
WindowSizeDefault == WindowSize(DefaultWidth, DefaultHeight)

\* (width, height) pairs a toplevel configure event is drawn from
Proposals == { WindowSize(0, 0), WindowSize(0, 600), WindowSize(800, 600),
               WindowSize(-1, 600) }

\* `x as u32` for an i32 x, as the two 16-bit halves <<high, low>> of the result
AsU32(x) == IF x >= 0
            THEN << x \div 65536, x % 65536 >>
            ELSE << 32768 + ((x + 2147483647 + 1) \div 65536),
                    (x + 2147483647 + 1) % 65536 >>

(* --------------------------- the trace --------------------------------- *)
Ev(op, a, b)  == [k |-> "event",   op |-> op, a |-> a, b |-> b]
Req(op, a, b) == [k |-> "request", op |-> op, a |-> a, b |-> b]
Gpu(op, a, b) == [k |-> "gpu",     op |-> op, a |-> a, b |-> b]

\* a request the last flush of the connection carried to the server
Flushed_WhenIssued(op) == \E i \in 1..Len(log) : log[i].k = "request" /\ log[i].op = op
Flushed(op) == \E i \in 1..flushed : log[i].k = "request" /\ log[i].op = op

\* blocking_dispatch is handing an event to its handler
Dispatching == pc \in {"initial_dispatch", "loop_dispatch"} /\ events < MaxEvents
Delivered == dispatched' = dispatched + 1 /\ events' = events + 1

Interfaces == {"wl_compositor", "xdg_wm_base", "other"}


(* ------------------------------ Init ----------------------------------- *)
\* AppState::default() after display.get_registry(); main() stands in its
\* first blocking_dispatch, which has flushed the get_registry request.
Init ==
    /\ pc = "initial_dispatch"
    /\ fault = ""
    /\ running = TRUE
    /\ wl_surface = None
    /\ wm_base = None
    /\ xdg_surface = None
    /\ xdg_toplevel = None
    /\ configured = FALSE
    /\ size = None
    /\ pending_resize = None
    /\ wgpu_state = None
    /\ surface_configuration = None
    /\ log = << Req("get_registry", 0, 0) >>
    /\ flushed = 1
    /\ dispatched = 0
    /\ events = 0
    /\ next_name = 1
    /\ next_serial = 1

(* ----------------------- AppState::init_xdg_surface -------------------- *)
\* the two expect() calls at the head of init_xdg_surface
InitXdgSurfaceFault(wm, surf) ==
    IF wm = None THEN "wm_base is None"
    ELSE IF surf = None THEN "wl_surface is None"
    ELSE ""

\* the requests init_xdg_surface issues, in program order
InitXdgSurfaceRequests_CommitEarly(wm, surf) ==
    << Req("get_xdg_surface", Unwrap(wm), Unwrap(surf)),
       Req("commit", Unwrap(surf), 0),
       Req("get_toplevel", Unwrap(surf), 0),
       Req("set_title", Unwrap(surf), 0),
       Req("set_app_id", Unwrap(surf), 0) >>
InitXdgSurfaceRequests(wm, surf) ==
    << Req("get_xdg_surface", Unwrap(wm), Unwrap(surf)),
       Req("get_toplevel", Unwrap(surf), 0),
       Req("set_title", Unwrap(surf), 0),
       Req("set_app_id", Unwrap(surf), 0),
       Req("commit", Unwrap(surf), 0) >>

(* ------------------ Dispatch<WlRegistry>::event ------------------------ *)
\* the condition under which the xdg_wm_base arm calls init_xdg_surface
RoleTrigger_NoGuard == IsSome(wl_surface)
RoleTrigger == IsSome(wl_surface) /\ xdg_surface = None

\* Global { name, interface, .. }; an interface other than the two matched
\* ones takes the `_ => {}` arm
RegistryGlobal(interface) ==
    LET name == next_name
        ev == Ev("global." \o interface, name, 0)
    IN
    /\ Dispatching
    /\ Delivered
    /\ next_name' = next_name + 1
    /\ UNCHANGED next_serial
    /\ CASE interface = "wl_compositor" ->
              /\ log' = log \o << ev, Req("bind.wl_compositor", name, 0),
                                  Req("create_surface", name, 0) >>
              /\ wl_surface' = Some(name)
              /\ UNCHANGED <<pc, fault, wm_base, xdg_surface, xdg_toplevel>>
         [] interface = "xdg_wm_base" ->
              /\ wm_base' = Some(name)
              /\ IF RoleTrigger
                 THEN IF InitXdgSurfaceFault(Some(name), wl_surface) # ""
                      THEN /\ pc' = "panic"
                           /\ fault' = InitXdgSurfaceFault(Some(name), wl_surface)
                           /\ log' = log \o << ev, Req("bind.xdg_wm_base", name, 0) >>
                           /\ UNCHANGED <<xdg_surface, xdg_toplevel>>
                      ELSE /\ log' = log \o << ev, Req("bind.xdg_wm_base", name, 0) >>
                                         \o InitXdgSurfaceRequests(Some(name), wl_surface)
                           /\ xdg_surface' = Some(Unwrap(wl_surface))
                           /\ xdg_toplevel' = Some(Unwrap(wl_surface))
                           /\ UNCHANGED <<pc, fault>>
                 ELSE /\ log' = log \o << ev, Req("bind.xdg_wm_base", name, 0) >>
                      /\ UNCHANGED <<pc, fault, xdg_surface, xdg_toplevel>>
              /\ UNCHANGED wl_surface
         [] OTHER ->
              /\ log' = log \o << ev >>
              /\ UNCHANGED <<pc, fault, wl_surface, wm_base, xdg_surface, xdg_toplevel>>
    /\ UNCHANGED <<running, configured, size, pending_resize, wgpu_state,
                   surface_configuration, flushed>>

(* ------------------ Dispatch<XdgWmBase>::event ------------------------- *)
\* the reply to Ping { serial } received on the proxy `obj`
Pong_FixedSerial(obj, serial) == Req("pong", 0, obj)
Pong(obj, serial) == Req("pong", serial, obj)

XdgWmBasePing(serial) ==
    /\ Dispatching
    /\ Delivered
    /\ next_serial' = serial + 1
    /\ UNCHANGED next_name
    /\ \E i \in 1..flushed :
          /\ log[i].k = "request" /\ log[i].op = "bind.xdg_wm_base"
          /\ log' = log \o << Ev("ping", serial, log[i].a), Pong(log[i].a, serial) >>
    /\ UNCHANGED <<pc, fault, session, surface_configuration, flushed>>


(* ----------------------- AppState::configure_wgpu ---------------------- *)
\* the expect() at the head of configure_wgpu
ConfigureWgpuFault(ws) ==
    IF ws = None THEN "WgpuState is None (configuring)" ELSE ""

\* the SurfaceConfiguration configure_wgpu hands to wgpu_surface.configure
SurfaceConfiguration(width, height) ==
    [width |-> AsU32(width), height |-> AsU32(height)]

(* ------------------ Dispatch<XdgSurface>::event ------------------------ *)
\* what Configure { serial } puts on the trace after the event itself:
\* ack_configure first, then configure_wgpu when a pending size was taken
ConfigureEffects_AckLast(serial, pending) ==
    (IF IsSome(pending) /\ IsSome(wgpu_state)
     THEN << Gpu("configure", Unwrap(pending).width, Unwrap(pending).height) >>
     ELSE << >>)
    \o << Req("ack_configure", serial, 0) >>
ConfigureEffects(serial, pending) ==
    << Req("ack_configure", serial, 0) >>
    \o (IF IsSome(pending) /\ IsSome(wgpu_state)
        THEN << Gpu("configure", Unwrap(pending).width, Unwrap(pending).height) >>
        ELSE << >>)

\* state.size after the `if let Some(size) = state.pending_resize.take()` block
SizeAfterConfigure_Defaulted(pending) ==
    IF IsSome(pending) THEN pending ELSE Some(WindowSizeDefault)
SizeAfterConfigure_NotPromoted(pending) == size
SizeAfterConfigure(pending) == IF IsSome(pending) THEN pending ELSE size

\* state.configured after the Configure arm
ConfiguredAfterConfigure_IfApplied(pending) == IsSome(pending)
ConfiguredAfterConfigure(pending) == TRUE

XdgSurfaceConfigure(serial) ==
    /\ Dispatching
    /\ Flushed("commit")
    /\ Delivered
    /\ next_serial' = serial + 1
    /\ UNCHANGED next_name
    /\ log' = log \o << Ev("xdg_surface.configure", serial, 0) >>
                  \o ConfigureEffects(serial, pending_resize)
    /\ pending_resize' = None
    /\ IF IsSome(pending_resize)
       THEN IF ConfigureWgpuFault(wgpu_state) # ""
            THEN /\ pc' = "panic"
                 /\ fault' = ConfigureWgpuFault(wgpu_state)
                 /\ UNCHANGED <<size, configured, surface_configuration>>
            ELSE /\ surface_configuration' =
                        Some(SurfaceConfiguration(Unwrap(pending_resize).width,
                                                  Unwrap(pending_resize).height))
                 /\ size' = SizeAfterConfigure(pending_resize)
                 /\ configured' = ConfiguredAfterConfigure(pending_resize)
                 /\ UNCHANGED <<pc, fault>>
       ELSE /\ size' = SizeAfterConfigure(pending_resize)
            /\ configured' = ConfiguredAfterConfigure(pending_resize)
            /\ UNCHANGED <<pc, fault, surface_configuration>>
    /\ UNCHANGED <<running, wl_surface, wm_base, xdg_surface, xdg_toplevel,
                   wgpu_state, flushed>>

(* ------------------ Dispatch<XdgToplevel>::event ----------------------- *)
\* the value the Configure arm computes from (width, height)
ResolveProposal_Literal(width, height) == WindowSize(width, height)
ResolveProposal(width, height) ==
    IF <<width, height>> = <<0, 0>> THEN WindowSizeDefault
    ELSE WindowSize(width, height)

\* the assignment to state.pending_resize
PendingAfterConfigure_KeepFirst(width, height) ==
    IF IsSome(pending_resize) THEN pending_resize
    ELSE Some(ResolveProposal(width, height))
PendingAfterConfigure(width, height) == Some(ResolveProposal(width, height))

XdgToplevelConfigure(width, height) ==
    /\ Dispatching
    /\ Flushed("get_toplevel")
    /\ Delivered
    /\ UNCHANGED <<next_name, next_serial>>
    /\ log' = log \o << Ev("xdg_toplevel.configure", width, height) >>
    /\ pending_resize' = PendingAfterConfigure(width, height)
    /\ UNCHANGED <<pc, fault, running, wl_surface, wm_base, xdg_surface,
                   xdg_toplevel, configured, size, wgpu_state,
                   surface_configuration, flushed>>

\* the Close arm
XdgToplevelClose_Unconfigure ==
    /\ Dispatching
    /\ Flushed("get_toplevel")
    /\ Delivered
    /\ UNCHANGED <<next_name, next_serial>>
    /\ log' = log \o << Ev("xdg_toplevel.close", 0, 0) >>
    /\ running' = FALSE
    /\ configured' = FALSE
    /\ UNCHANGED <<pc, fault, wl_surface, wm_base, xdg_surface, xdg_toplevel,
                   size, pending_resize, wgpu_state,
                   surface_configuration, flushed>>
XdgToplevelClose ==
    /\ Dispatching
    /\ Flushed("get_toplevel")
    /\ Delivered
    /\ UNCHANGED <<next_name, next_serial>>
    /\ log' = log \o << Ev("xdg_toplevel.close", 0, 0) >>
    /\ running' = FALSE
    /\ UNCHANGED <<pc, fault, wl_surface, wm_base, xdg_surface, xdg_toplevel,
                   configured, size, pending_resize, wgpu_state,
                   surface_configuration, flushed>>

\* ConfigureBounds, WmCapabilities: the `_ => {}` arm
XdgToplevelOther ==
    /\ Dispatching
    /\ Flushed("get_toplevel")
    /\ Delivered
    /\ UNCHANGED <<next_name, next_serial>>
    /\ log' = log \o << Ev("xdg_toplevel.other", 0, 0) >>
    /\ UNCHANGED <<pc, fault, session, surface_configuration, flushed>>

(* ------------------------------ main ----------------------------------- *)
\* the statement that follows each of the two blocking_dispatch calls:
\* init_wgpu after the one-time dispatch, the render test inside the loop
AfterDispatch_InitInLoop == "init_wgpu"
AfterDispatch == IF pc = "initial_dispatch" THEN "init_wgpu" ELSE "render_check"

\* blocking_dispatch returns once it has dispatched at least one event
DispatchReturn ==
    /\ pc \in {"initial_dispatch", "loop_dispatch"}
    /\ dispatched > 0
    /\ pc' = AfterDispatch
    /\ dispatched' = 0
    /\ UNCHANGED <<fault, session, surface_configuration, log, flushed, source>>

\* blocking_dispatch(..).unwrap() when the flush or the blocking read fails,
\* which is before any event of this call is dispatched
DispatchError ==
    /\ pc \in {"initial_dispatch", "loop_dispatch"}
    /\ dispatched = 0
    /\ pc' = "panic"
    /\ fault' = "DispatchError"
    /\ UNCHANGED <<session, surface_configuration, log, flushed, dispatched, source>>

\* the expect() on self.wl_surface in init_wgpu
InitWgpuFault(surf) ==
    IF surf = None THEN "wl_surface is None (init wgpu)" ELSE ""

\* AppState::init_wgpu; gpu_ok is whether an adapter and a device were obtained
InitWgpu ==
    /\ pc = "init_wgpu"
    /\ IF InitWgpuFault(wl_surface) # ""
       THEN /\ pc' = "panic"
            /\ fault' = InitWgpuFault(wl_surface)
            /\ UNCHANGED <<wgpu_state, log>>
       ELSE \E gpu_ok \in BOOLEAN :
              IF gpu_ok
              THEN /\ wgpu_state' = Some(Unwrap(wl_surface))
                   /\ log' = log \o << Gpu("init", Unwrap(wl_surface), 0) >>
                   /\ pc' = "loop_check"
                   /\ UNCHANGED fault
              ELSE /\ pc' = "panic"
                   /\ fault' = "Cannot request adapter"
                   /\ UNCHANGED <<wgpu_state, log>>
    /\ UNCHANGED <<running, wl_surface, wm_base, xdg_surface, xdg_toplevel,
                   configured, size, pending_resize, surface_configuration,
                   flushed, dispatched, source>>

\* the condition of `while app_state.running`
LoopGuard_Forever == TRUE
LoopGuard == running

\* `while app_state.running`, then the flush at the head of blocking_dispatch
LoopCheck ==
    /\ pc = "loop_check"
    /\ IF LoopGuard
       THEN /\ pc' = "loop_dispatch"
            /\ flushed' = Len(log)
       ELSE /\ pc' = "exit"
            /\ UNCHANGED flushed
    /\ UNCHANGED <<fault, session, surface_configuration, log, dispatched, source>>

\* `if app_state.configured`
RenderGuard_Always == TRUE
RenderGuard == configured

RenderCheck ==
    /\ pc = "render_check"
    /\ pc' = IF RenderGuard THEN "draw" ELSE "loop_check"
    /\ UNCHANGED <<fault, session, surface_configuration, log, flushed, dispatched, source>>

\* the expect() at the head of draw
DrawFault_Skipped(ws) == ""
DrawFault(ws) ==
    IF ws = None THEN "WgpuState is None (drawing)" ELSE ""

\* draw(); acquired is whether get_current_texture returned a frame
Draw ==
    /\ pc = "draw"
    /\ IF DrawFault(wgpu_state) # ""
       THEN /\ pc' = "panic"
            /\ fault' = DrawFault(wgpu_state)
            /\ UNCHANGED log
       ELSE \E acquired \in BOOLEAN :
              IF acquired
              THEN /\ log' = log \o << Gpu("draw", 0, 0) >>
                   /\ pc' = "loop_check"
                   /\ UNCHANGED fault
              ELSE /\ pc' = "panic"
                   /\ fault' = "Failed to acquire next swapchain texture"
                   /\ UNCHANGED log
    /\ UNCHANGED <<session, surface_configuration, flushed, dispatched, source>>

(* ------------------------------ Next ----------------------------------- *)
Next ==
    \/ \E interface \in Interfaces : RegistryGlobal(interface)
    \/ XdgWmBasePing(next_serial)
    \/ XdgSurfaceConfigure(next_serial)
    \/ \E p \in Proposals : XdgToplevelConfigure(p.width, p.height)
    \/ XdgToplevelClose
    \/ XdgToplevelOther
    \/ DispatchReturn
    \/ DispatchError
    \/ InitWgpu
    \/ LoopCheck
    \/ RenderCheck
    \/ Draw

Spec == Init /\ [][Next]_vars

\* main() is one sequential thread: a statement that is reached is executed,
\* and blocking_dispatch returns once the batch it has read is dispatched.
SpecFair ==
    /\ Spec
    /\ WF_vars(DispatchReturn)
    /\ WF_vars(InitWgpu)
    /\ WF_vars(RenderCheck)
    /\ WF_vars(Draw)
    /\ WF_vars(LoopCheck)

(* ------------- the operations called on an arbitrary session ----------- *)
\* The callers above only reach init_xdg_surface, configure_wgpu and draw
\* with their objects present.  Here each operation of AppState is entered
\* once from a session whose optional fields are drawn freely, to see what
\* the operation itself does when an object it expects is absent.
Operations == {"init_xdg_surface", "init_wgpu", "configure_wgpu", "draw"}

InitOps ==
    /\ pc \in Operations
    /\ fault = ""
    /\ running \in BOOLEAN
    /\ wl_surface \in {None, Some(1)}
    /\ wm_base \in {None, Some(2)}
    /\ xdg_surface = None
    /\ xdg_toplevel = None
    /\ configured \in BOOLEAN
    /\ size = None
    /\ pending_resize = None
    /\ wgpu_state \in {None, Some(1)}
    /\ surface_configuration = None
    /\ log = << >>
    /\ flushed = 0
    /\ dispatched = 0
    /\ events = 0
    /\ next_name = 3
    /\ next_serial = 1

\* state.init_xdg_surface(queue_handle)
CallInitXdgSurface ==
    /\ pc = "init_xdg_surface"
    /\ IF InitXdgSurfaceFault(wm_base, wl_surface) # ""
       THEN /\ pc' = "panic"
            /\ fault' = InitXdgSurfaceFault(wm_base, wl_surface)
            /\ UNCHANGED <<log, xdg_surface, xdg_toplevel>>
       ELSE /\ log' = log \o InitXdgSurfaceRequests(wm_base, wl_surface)
            /\ xdg_surface' = Some(Unwrap(wl_surface))
            /\ xdg_toplevel' = Some(Unwrap(wl_surface))
            /\ pc' = "returned"
            /\ UNCHANGED fault
    /\ UNCHANGED <<running, wl_surface, wm_base, configured, size, pending_resize,
                   wgpu_state, surface_configuration, flushed, dispatched, source>>

\* state.configure_wgpu(width, height)
CallConfigureWgpu(width, height) ==
    /\ pc = "configure_wgpu"
    /\ IF ConfigureWgpuFault(wgpu_state) # ""
       THEN /\ pc' = "panic"
            /\ fault' = ConfigureWgpuFault(wgpu_state)
            /\ UNCHANGED <<log, surface_configuration>>
       ELSE /\ log' = log \o << Gpu("configure", width, height) >>
            /\ surface_configuration' = Some(SurfaceConfiguration(width, height))
            /\ pc' = "returned"
            /\ UNCHANGED fault
    /\ UNCHANGED <<session, flushed, dispatched, source>>

NextOps ==
    \/ CallInitXdgSurface
    \/ InitWgpu
    \/ \E p \in Proposals : CallConfigureWgpu(p.width, p.height)
    \/ Draw

SpecOps == InitOps /\ [][NextOps]_vars


(* ===================== properties of the trace ========================= *)
IsEv(i, op)  == log[i].k = "event"   /\ log[i].op = op
IsReq(i, op) == log[i].k = "request" /\ log[i].op = op
IsGpu(i, op) == log[i].k = "gpu"     /\ log[i].op = op
Idx == 1..Len(log)

\* how many entries of kind k and operation op the trace s holds
CountIn(s, k, op) == Cardinality({ i \in 1..Len(s) : s[i].k = k /\ s[i].op = op })

\* the xdg_wm_base announcement at i arrives when the role is already assigned
SecondTrigger(i) ==
    /\ IsEv(i, "global.xdg_wm_base")
    /\ \E j \in 1..(i - 1) : IsReq(j, "get_xdg_surface")

\* j is the last toplevel configure before the surface configure at i, with
\* no other surface configure in between
LastProposal(j, i) ==
    /\ j < i
    /\ IsEv(j, "xdg_toplevel.configure")
    /\ \A m \in (j + 1)..(i - 1) :
          ~IsEv(m, "xdg_toplevel.configure") /\ ~IsEv(m, "xdg_surface.configure")

\* C1: once both the base surface and the shell global exist, the window
\* role has been assigned, whatever the order the two globals arrived in.
C1_RoleAssignedOnceBothExist ==
    (IsSome(wl_surface) /\ IsSome(wm_base)) => IsSome(xdg_surface)

\* C2: over any sequence of registry events the base surface is created
\* exactly once after wl_compositor is first seen, and the stored surface
\* handle is never replaced (it is the one surface ever created).
C2_SurfaceCreatedOnce ==
    /\ CountIn(log, "request", "create_surface") =
          (IF CountIn(log, "event", "global.wl_compositor") > 0 THEN 1 ELSE 0)
    /\ \A i \in Idx : IsReq(i, "create_surface") => wl_surface = Some(log[i].a)

\* C3 (as stated): role assignment runs at most once, and an xdg_wm_base
\* announcement that arrives after it issues no protocol request at all.
C3_SecondTriggerNoRequest ==
    /\ CountIn(log, "request", "get_xdg_surface") <= 1
    /\ CountIn(log, "request", "get_toplevel") <= 1
    /\ CountIn(log, "request", "commit") <= 1
    /\ \A i \in Idx : SecondTrigger(i) => (i = Len(log) \/ log[i + 1].k # "request")

\* C3 (amended): role assignment (get_xdg_surface, get_toplevel, set_title,
\* set_app_id, commit) runs at most once; an xdg_wm_base announcement that
\* arrives after it issues the registry bind and nothing else.
C3_RoleAssignedAtMostOnce ==
    /\ CountIn(log, "request", "get_xdg_surface") <= 1
    /\ CountIn(log, "request", "get_toplevel") <= 1
    /\ CountIn(log, "request", "set_title") <= 1
    /\ CountIn(log, "request", "set_app_id") <= 1
    /\ CountIn(log, "request", "commit") <= 1
    /\ \A i \in Idx : SecondTrigger(i) =>
          /\ i + 1 <= Len(log)
          /\ log[i + 1] = Req("bind.xdg_wm_base", log[i].a, 0)
          /\ (i + 2 <= Len(log) => log[i + 2].k # "request")

C3_Witness ==
    /\ \E i \in Idx : SecondTrigger(i)
    /\ IsSome(xdg_toplevel)
    /\ CountIn(log, "request", "commit") = 1

\* C4: every surface configure event with serial s is answered by
\* ack_configure(s), issued directly after the event and before anything
\* else the event triggers (the GPU surface reconfiguration included), with
\* or without a pending size.
C4_AckFirstSameSerial ==
    /\ \A i \in Idx : IsEv(i, "xdg_surface.configure") =>
          /\ i + 1 <= Len(log)
          /\ log[i + 1] = Req("ack_configure", log[i].a, 0)
    /\ CountIn(log, "request", "ack_configure") =
          CountIn(log, "event", "xdg_surface.configure")

\* an empty configure and a configure with a pending size were both acked
C4_Witness ==
    /\ \E i \in Idx : /\ IsEv(i, "xdg_surface.configure")
                      /\ i + 2 <= Len(log)
                      /\ IsGpu(i + 2, "configure")
    /\ \E i \in Idx : /\ IsEv(i, "xdg_surface.configure")
                      /\ (i + 2 <= Len(log) => ~IsGpu(i + 2, "configure"))
                      /\ log[i + 1] = Req("ack_configure", log[i].a, 0)

\* C5: toplevel configure events S1..Sn followed by a surface configure
\* reconfigure the presentation surface exactly once, with the last proposal
\* Sn (the default size when Sn is the "client chooses" proposal (0,0));
\* no other reconfiguration ever happens, so S1..Sn-1 are never applied.
C5_LastWriteWins ==
    /\ \A i \in Idx : IsEv(i, "xdg_surface.configure") =>
          \A j \in 1..(i - 1) : LastProposal(j, i) =>
             /\ i + 2 <= Len(log)
             /\ log[i + 2] = (IF log[j].a = 0 /\ log[j].b = 0
                              THEN Gpu("configure", 320, 320)
                              ELSE Gpu("configure", log[j].a, log[j].b))
             /\ surface_configuration # None
    /\ \A k \in Idx : IsGpu(k, "configure") =>
          /\ k >= 3
          /\ IsEv(k - 2, "xdg_surface.configure")
          /\ \E j \in 1..(k - 3) : LastProposal(j, k - 2)

\* two different proposals, then one surface configure that applied the second
C5_Witness ==
    \E i \in Idx : IsEv(i, "xdg_surface.configure") /\
     \E j \in 1..(i - 1) : LastProposal(j, i) /\
      \E h \in 1..(j - 1) :
       /\ IsEv(h, "xdg_toplevel.configure")
       /\ \A m \in h..i : ~IsEv(m, "xdg_surface.configure") \/ m = i
       /\ <<log[h].a, log[h].b>> # <<log[j].a, log[j].b>>
       /\ log[j].a > 0
       /\ i + 2 <= Len(log)
       /\ log[i + 2] = Gpu("configure", log[j].a, log[j].b)
       /\ CountIn(log, "gpu", "configure") = 1

\* C6: right after a toplevel configure event the pending size is 320x320
\* when the proposal was (0,0) and the proposal itself otherwise; (0,0) is
\* never the pending size.
C6_ZeroZeroIsDefault ==
    /\ pending_resize # Some(WindowSize(0, 0))
    /\ (IsEv(Len(log), "xdg_toplevel.configure") =>
          pending_resize = Some(IF log[Len(log)].a = 0 /\ log[Len(log)].b = 0
                                THEN WindowSize(320, 320)
                                ELSE WindowSize(log[Len(log)].a, log[Len(log)].b)))

C6_Witness ==
    /\ IsEv(Len(log), "xdg_toplevel.configure")
    /\ log[Len(log)].a = 0 /\ log[Len(log)].b = 0
    /\ pending_resize = Some(WindowSize(320, 320))

\* C7: every size handed to configure_wgpu and every current size is
\* positive in both dimensions, whatever the server proposes.
C7_SizesPositive ==
    /\ \A i \in Idx : IsGpu(i, "configure") => (log[i].a > 0 /\ log[i].b > 0)
    /\ (IsSome(size) => (Unwrap(size).width > 0 /\ Unwrap(size).height > 0))

\* C8: no draw follows a handled close event, not even in the loop
\* iteration whose dispatch delivered the close.
C8_NoDrawAfterClose ==
    \A i \in Idx : IsEv(i, "xdg_toplevel.close") =>
       \A j \in (i + 1)..Len(log) : ~IsGpu(j, "draw")

\* C9: the process gets past initialization (GPU context created, loop
\* entered) only if both required globals were bound by the time the
\* initial dispatch returned.
C9_NoInitWithoutGlobals ==
    (IsSome(wgpu_state) \/ pc \in {"loop_check", "loop_dispatch", "render_check",
                                   "draw", "exit"}) =>
       \E i \in Idx :
          /\ IsGpu(i, "init")
          /\ \E j \in 1..(i - 1) : IsReq(j, "bind.wl_compositor")
          /\ \E j \in 1..(i - 1) : IsReq(j, "bind.xdg_wm_base")

\* C10: draw is entered only with configured true, and every frame drawn
\* comes after an acknowledged surface configure event.
C10_DrawOnlyWhenConfigured ==
    /\ (pc = "draw" => (configured /\ CountIn(log, "request", "ack_configure") > 0))
    /\ \A i \in Idx : IsGpu(i, "draw") =>
          \E j \in 1..(i - 1) : IsReq(j, "ack_configure")

C10_Witness ==
    /\ configured
    /\ \E i \in Idx : IsGpu(i, "draw")


\* C11: role assignment issues get_xdg_surface, get_toplevel, set_title,
\* set_app_id and commit in exactly this order with nothing in between (so
\* no commit falls between adapter and role creation), and that commit comes
\* before every GPU surface configuration and every frame drawn.
C11_RoleRequestOrder ==
    /\ \A i \in Idx : IsReq(i, "get_xdg_surface") =>
          /\ i + 4 <= Len(log)
          /\ IsReq(i + 1, "get_toplevel")
          /\ IsReq(i + 2, "set_title")
          /\ IsReq(i + 3, "set_app_id")
          /\ IsReq(i + 4, "commit")
          /\ log[i + 4].a = log[i].b
    /\ \A i \in Idx : IsReq(i, "commit") => (i > 4 /\ IsReq(i - 4, "get_xdg_surface"))
    /\ \A k \in Idx : (IsGpu(k, "configure") \/ IsGpu(k, "draw")) =>
          \E i \in 1..(k - 1) : IsReq(i, "commit")

\* the role was assigned, the surface configured and a frame drawn
C11_Witness ==
    /\ IsSome(xdg_toplevel)
    /\ \E i \in Idx : IsReq(i, "commit") /\
         \E k \in (i + 1)..Len(log) : IsGpu(k, "configure") /\
           \E d \in (k + 1)..Len(log) : IsGpu(d, "draw")


\* the step from the unprimed to the primed state dispatched an event `op`
Handled(op) ==
    /\ Len(log') > Len(log)
    /\ log'[Len(log) + 1].k = "event"
    /\ log'[Len(log) + 1].op = op

\* C12: every Ping { serial } is answered, directly, by pong with the same
\* serial on the same xdg_wm_base object, whatever state the session is in,
\* and the step that handles a ping changes no session field.
C12_PingAnswered ==
    /\ [](\A i \in Idx : IsEv(i, "ping") =>
             /\ i + 1 <= Len(log)
             /\ log[i + 1] = Req("pong", log[i].a, log[i].b))
    /\ [][Handled("ping") =>
             /\ UNCHANGED <<session, surface_configuration, pc, fault>>
             /\ Len(log') = Len(log) + 2]_vars

\* a ping answered after the close event, in a configured session
C12_Witness ==
    /\ ~running
    /\ configured
    /\ \E c \in Idx : IsEv(c, "xdg_toplevel.close") /\
         \E i \in (c + 1)..Len(log) :
            /\ IsEv(i, "ping")
            /\ i + 1 <= Len(log)
            /\ log[i + 1] = Req("pong", log[i].a, log[i].b)

\* a ping answered before any role was assigned
C12_WitnessUnassigned ==
    /\ xdg_surface = None
    /\ \E i \in Idx : IsEv(i, "ping") /\ i + 1 <= Len(log) /\ IsReq(i + 1, "pong")


\* main() has returned from init_wgpu
PastInit == pc \in {"loop_check", "loop_dispatch", "render_check", "draw", "exit"}

\* C13: the presentation context is created exactly once: it is present in
\* every state after initialization, and once present it is never cleared
\* or replaced by any handler or loop step.
C13_ContextCreatedOnce ==
    /\ [](/\ PastInit => IsSome(wgpu_state)
          /\ IsSome(wgpu_state) <=> CountIn(log, "gpu", "init") = 1
          /\ CountIn(log, "gpu", "init") <= 1)
    /\ [][IsSome(wgpu_state) => wgpu_state' = wgpu_state]_vars

\* the context has survived a reconfiguration, a close and a drawn frame
C13_Witness ==
    /\ IsSome(wgpu_state)
    /\ ~running
    /\ \E i \in Idx : IsGpu(i, "configure")
    /\ \E i \in Idx : IsGpu(i, "draw")


\* C14: an operation entered while an object it expects is absent aborts
\* the process, naming the object: init_xdg_surface without wm_base or
\* wl_surface (and then before any request is issued), init_wgpu without
\* wl_surface, configure_wgpu and draw without the GPU context.  Nothing is
\* skipped or retried: the session is left as it was.
C14_FailsLoudly ==
    [][/\ (pc = "init_xdg_surface" /\ (wm_base = None \/ wl_surface = None)) =>
            /\ pc' = "panic"
            /\ fault' = (IF wm_base = None THEN "wm_base is None"
                         ELSE "wl_surface is None")
            /\ UNCHANGED <<log, session, surface_configuration>>
       /\ (pc = "init_wgpu" /\ wl_surface = None) =>
            /\ pc' = "panic"
            /\ fault' = "wl_surface is None (init wgpu)"
            /\ UNCHANGED <<log, session, surface_configuration>>
       /\ (pc = "configure_wgpu" /\ wgpu_state = None) =>
            /\ pc' = "panic"
            /\ fault' = "WgpuState is None (configuring)"
            /\ UNCHANGED <<log, session, surface_configuration>>
       /\ (pc = "draw" /\ wgpu_state = None) =>
            /\ pc' = "panic"
            /\ fault' = "WgpuState is None (drawing)"
            /\ UNCHANGED <<log, session, surface_configuration>>
      ]_vars

\* role assignment was entered without the shell global and aborted with
\* nothing sent
C14_Witness ==
    /\ pc = "panic"
    /\ fault = "wm_base is None"
    /\ wm_base = None
    /\ IsSome(wl_surface)
    /\ log = << >>
    /\ xdg_surface = None


\* C15: whenever draw is entered or has run, and whenever configured is
\* true, some configure_wgpu call has completed, so the GPU surface has a
\* configuration; also when the first surface configure event had no
\* toplevel configure before it.
C15_ConfiguredMeansSurfaceConfigured ==
    /\ configured => (IsSome(surface_configuration)
                      /\ CountIn(log, "gpu", "configure") > 0)
    /\ pc = "draw" => IsSome(surface_configuration)
    /\ \A i \in Idx : IsGpu(i, "draw") =>
          \E j \in 1..(i - 1) : IsGpu(j, "configure")


\* C16: with a server that answers the initial commit and a connection that
\* is flushed only by blocking_dispatch, configure_wgpu is never entered
\* without the GPU context: every surface configure event that finds a
\* pending size is handled after init_wgpu has completed, however the
\* events are spread over the dispatch calls.
C16_ConfigureAfterInitWgpu ==
    /\ fault # "WgpuState is None (configuring)"
    /\ \A i \in Idx : IsEv(i, "xdg_surface.configure") =>
          ((\E j \in 1..(i - 1) : LastProposal(j, i)) =>
             /\ \E g \in 1..(i - 1) : IsGpu(g, "init")
             /\ i + 2 <= Len(log)
             /\ IsGpu(i + 2, "configure"))

\* role assigned in a later dispatch than the one-time one, then a pending
\* size applied
C16_Witness ==
    \E g \in Idx : IsGpu(g, "init") /\
      \E c \in (g + 1)..Len(log) : IsReq(c, "commit") /\
        \E i \in (c + 1)..Len(log) :
           /\ IsEv(i, "xdg_surface.configure")
           /\ i + 2 <= Len(log)
           /\ IsGpu(i + 2, "configure")


\* the index of the last event on the trace (0 when there is none)
LastEvent ==
    IF \E i \in Idx : log[i].k = "event"
    THEN CHOOSE i \in Idx : log[i].k = "event" /\ \A m \in (i + 1)..Len(log) : log[m].k # "event"
    ELSE 0

\* C17: a surface configure event that finds no pending size sets
\* configured and changes nothing else of the session: current size,
\* pending slot (still empty), running flag and role objects keep their
\* values and the GPU surface is not reconfigured; only the ack is issued.
C17_EmptyConfigureFrame ==
    [][(Handled("xdg_surface.configure") /\ pending_resize = None) =>
          /\ configured'
          /\ pending_resize' = None
          /\ UNCHANGED <<size, running, wl_surface, wm_base, xdg_surface,
                         xdg_toplevel, wgpu_state, surface_configuration, pc, fault>>
          /\ Len(log') = Len(log) + 2
          /\ log'[Len(log') ].k = "request"
      ]_vars

\* an empty configure handled in a session that already has a size
C17_Witness ==
    /\ LastEvent > 0
    /\ IsEv(LastEvent, "xdg_surface.configure")
    /\ LastEvent + 1 = Len(log)
    /\ configured
    /\ IsSome(size)
    /\ IsSome(surface_configuration)
    /\ CountIn(log, "gpu", "configure") = 1
    /\ CountIn(log, "event", "xdg_surface.configure") = 2


\* the index of the last configure_wgpu call on the trace (0 when there is none)
LastGpuConfigure ==
    IF \E i \in Idx : IsGpu(i, "configure")
    THEN CHOOSE i \in Idx : IsGpu(i, "configure")
                            /\ \A m \in (i + 1)..Len(log) : ~IsGpu(m, "configure")
    ELSE 0

\* C18: once a surface configure event has been handled the pending slot is
\* empty (until the next toplevel configure); the current size is set
\* exactly when the GPU surface has been configured at least once, and then
\* it is the size of the most recent configure_wgpu call.
C18_SizeTracksSurface ==
    /\ (LastEvent > 0 /\ IsEv(LastEvent, "xdg_surface.configure")) => pending_resize = None
    /\ IsSome(size) <=> LastGpuConfigure > 0
    /\ IsSome(size) <=> IsSome(surface_configuration)
    /\ IsSome(size) =>
          /\ log[LastGpuConfigure] = Gpu("configure", Unwrap(size).width, Unwrap(size).height)
          /\ surface_configuration =
                Some(SurfaceConfiguration(Unwrap(size).width, Unwrap(size).height))

\* a surface configure event has just promoted a pending size that is not
\* the first one proposed
C18_Witness ==
    /\ LastEvent > 0
    /\ IsEv(LastEvent, "xdg_surface.configure")
    /\ pending_resize = None
    /\ IsSome(size)
    /\ LastGpuConfigure = LastEvent + 2
    /\ log[LastGpuConfigure] = Gpu("configure", Unwrap(size).width, Unwrap(size).height)
    /\ CountIn(log, "event", "xdg_toplevel.configure") = 2


\* C19: a toplevel configure event changes only the pending size: current
\* size, configured, running, the role objects and the GPU surface
\* configuration are unchanged and no request is issued; a close event
\* changes only the running flag.
C19_ToplevelEventFrame ==
    [][/\ Handled("xdg_toplevel.configure") =>
            /\ UNCHANGED <<size, configured, running, wl_surface, wm_base,
                           xdg_surface, xdg_toplevel, wgpu_state,
                           surface_configuration, pc, fault>>
            /\ Len(log') = Len(log) + 1
       /\ Handled("xdg_toplevel.close") =>
            /\ running' = FALSE
            /\ UNCHANGED <<size, pending_resize, configured, wl_surface, wm_base,
                           xdg_surface, xdg_toplevel, wgpu_state,
                           surface_configuration, pc, fault>>
            /\ Len(log') = Len(log) + 1
      ]_vars

\* a toplevel configure event handled in a configured session that has a
\* current size different from the new proposal
C19_Witness ==
    /\ IsEv(Len(log), "xdg_toplevel.configure")
    /\ configured
    /\ IsSome(size)
    /\ IsSome(pending_resize)
    /\ pending_resize # size
    /\ IsSome(surface_configuration)

\* C20: once running is false no step sets it back to true, once configured
\* is true no step resets it, and the only step that makes running false is
\* the handling of a close event.
C20_FlagsMonotonic ==
    [][/\ ~running => ~running'
       /\ configured => configured'
       /\ (running /\ ~running') => Handled("xdg_toplevel.close")
      ]_vars

\* closed and configured, with a further surface configure event handled
\* after the close
C20_Witness ==
    /\ ~running
    /\ configured
    /\ \E c \in Idx : IsEv(c, "xdg_toplevel.close") /\
         \E i \in 1..(c - 1) : IsEv(i, "xdg_surface.configure")
    /\ \E c \in Idx : IsEv(c, "xdg_toplevel.close") /\
         \E i \in (c + 1)..Len(log) : IsEv(i, "xdg_surface.configure")


\* C21: once a close event has been delivered the loop terminates unless a
\* fatal fault ends the process first.  The loop test that follows sees
\* running = false and exits, no blocking_dispatch is entered after the one
\* that delivered the close, and whenever main() is outside blocking_dispatch
\* every delivered event has been handled (the running flag already
\* reflects every close event on the trace).
C21_LoopTerminatesAfterClose ==
    /\ [](running <=> CountIn(log, "event", "xdg_toplevel.close") = 0)
    /\ [][(pc = "loop_check" /\ ~running) => pc' = "exit"]_vars
    /\ [][(~running /\ pc # "loop_dispatch") => pc' # "loop_dispatch"]_vars
    /\ (~running ~> (pc = "exit" \/ pc = "panic"))

\* the loop has exited after a close, having drawn a frame on the way
C21_Witness ==
    /\ pc = "exit"
    /\ ~running
    /\ fault = ""
    /\ \E c \in Idx : IsEv(c, "xdg_toplevel.close") /\
         \E d \in (c + 1)..Len(log) : IsGpu(d, "draw")

====
